---- MODULE Spec2Model ----
(***************************************************************************)
(* Model of the social-publishing core of Vidiyome:                        *)
(*   SocialMediaService (credential store, authorization URL builder,      *)
(*   platform adapters, publishVideo) and the HTTP handlers of routes.ts   *)
(*   that drive it (auth-url, YouTube OAuth callback).                     *)
(*                                                                         *)
(* Strings that the code only tests for truthiness are kept as strings;    *)
(* "" stands for every falsy value (undefined, null, empty string).        *)
(* Every handler runs to completion on the single-threaded event loop, so  *)
(* each handler is one action.  The variable `call` holds the call that    *)
(* has just completed (arguments, result, store before the call) until its *)
(* response is delivered by Respond.                                       *)
(***************************************************************************)
EXTENDS Integers, Sequences, FiniteSets, TLC

VARIABLES
  env,             \* process.env
  config,          \* SocialMediaService.config
  call,            \* the completed call whose response is being delivered
  exchanged,       \* history: the authorization codes exchanged so far
  videos,          \* MemStorage.videos
  videoIdCounter,  \* MemStorage.videoIdCounter
  req,             \* the publish request suspended in fs.access, if any
  activityFails    \* whether storage.createActivity rejects

storage == <<videos, videoIdCounter, req, activityFails>>

vars == <<env, config, call, exchanged, storage>>

-----------------------------------------------------------------------------
(* Bounds *)

\* longest platform list of a publish request
MaxPlatforms == 2

-----------------------------------------------------------------------------
(* The configuration source: process.env *)

EnvKeys ==
  {"YOUTUBE_CLIENT_ID", "YOUTUBE_CLIENT_SECRET", "YOUTUBE_ACCESS_TOKEN",
   "TIKTOK_CLIENT_KEY", "TIKTOK_CLIENT_SECRET", "TIKTOK_ACCESS_TOKEN",
   "INSTAGRAM_ACCESS_TOKEN", "FACEBOOK_APP_ID"}

\* the value a key has when it is set
EnvValue ==
  [k \in EnvKeys |->
     CASE k = "YOUTUBE_CLIENT_ID"      -> "yt-client-id"
       [] k = "YOUTUBE_CLIENT_SECRET"  -> "yt-client-secret"
       [] k = "YOUTUBE_ACCESS_TOKEN"   -> "yt-env-token"
       [] k = "TIKTOK_CLIENT_KEY"      -> "tt-client-key"
       [] k = "TIKTOK_CLIENT_SECRET"   -> "tt-client-secret"
       [] k = "TIKTOK_ACCESS_TOKEN"    -> "tt-env-token"
       [] k = "INSTAGRAM_ACCESS_TOKEN" -> "ig-env-token"
       [] k = "FACEBOOK_APP_ID"        -> "fb-app-id"]

\* JavaScript truthiness of a string-or-undefined value
Truthy(s) == s # ""

-----------------------------------------------------------------------------
(* SocialMediaAuthConfig.  youtube.refreshToken is copied from               *)
(* YOUTUBE_REFRESH_TOKEN by loadConfig and read by no code; it is left out. *)

AbsentYoutube ==
  [present |-> FALSE, clientId |-> "", clientSecret |-> "", accessToken |-> ""]

AbsentTiktok ==
  [present |-> FALSE, clientKey |-> "", clientSecret |-> "", accessToken |-> ""]

AbsentInstagram == [present |-> FALSE, accessToken |-> ""]

\* private config: SocialMediaAuthConfig = {}
EmptyConfig ==
  [youtube |-> AbsentYoutube, tiktok |-> AbsentTiktok, instagram |-> AbsentInstagram]

\* A section is replaced when its variables are set and kept otherwise.
loadConfig(cfg, e) ==
  [youtube |->
     IF Truthy(e["YOUTUBE_CLIENT_ID"]) /\ Truthy(e["YOUTUBE_CLIENT_SECRET"])
     THEN [present |-> TRUE,
           clientId |-> e["YOUTUBE_CLIENT_ID"],
           clientSecret |-> e["YOUTUBE_CLIENT_SECRET"],
           accessToken |-> e["YOUTUBE_ACCESS_TOKEN"]]
     ELSE cfg.youtube,
   tiktok |->
     IF Truthy(e["TIKTOK_CLIENT_KEY"]) /\ Truthy(e["TIKTOK_CLIENT_SECRET"])
     THEN [present |-> TRUE,
           clientKey |-> e["TIKTOK_CLIENT_KEY"],
           clientSecret |-> e["TIKTOK_CLIENT_SECRET"],
           accessToken |-> e["TIKTOK_ACCESS_TOKEN"]]
     ELSE cfg.tiktok,
   instagram |->
     IF Truthy(e["INSTAGRAM_ACCESS_TOKEN"])
     THEN [present |-> TRUE, accessToken |-> e["INSTAGRAM_ACCESS_TOKEN"]]
     ELSE cfg.instagram]

-----------------------------------------------------------------------------
(* Platform ids *)

\* ids a caller may pass: the three platforms, a mixed-case spelling, an
\* unknown id
PlatformIds == {"youtube", "tiktok", "instagram", "YouTube", "vimeo"}

toLowerCase(s) == IF s = "YouTube" THEN "youtube" ELSE s

\* tokens a caller of setAccessToken may pass
Tokens == {"tok123"}

\* isPlatformConfigured with an unknown id falling through to the youtube check
isPlatformConfigured_DefaultYoutube(cfg, platform) ==
  CASE toLowerCase(platform) = "tiktok" ->
         Truthy(cfg.tiktok.clientKey) /\ Truthy(cfg.tiktok.clientSecret)
    [] toLowerCase(platform) = "instagram" ->
         Truthy(cfg.instagram.accessToken)
    [] OTHER -> Truthy(cfg.youtube.clientId) /\ Truthy(cfg.youtube.clientSecret)

isPlatformConfigured(cfg, platform) ==
  CASE toLowerCase(platform) = "youtube" ->
         Truthy(cfg.youtube.clientId) /\ Truthy(cfg.youtube.clientSecret)
    [] toLowerCase(platform) = "tiktok" ->
         Truthy(cfg.tiktok.clientKey) /\ Truthy(cfg.tiktok.clientSecret)
    [] toLowerCase(platform) = "instagram" ->
         Truthy(cfg.instagram.accessToken)
    [] OTHER -> FALSE

\* getConfiguredPlatforms testing tiktok ahead of youtube
getConfiguredPlatforms_TiktokFirst(cfg) ==
  (IF isPlatformConfigured(cfg, "tiktok") THEN <<"tiktok">> ELSE <<>>) \o
  (IF isPlatformConfigured(cfg, "youtube") THEN <<"youtube">> ELSE <<>>) \o
  (IF isPlatformConfigured(cfg, "instagram") THEN <<"instagram">> ELSE <<>>)

getConfiguredPlatforms(cfg) ==
  (IF isPlatformConfigured(cfg, "youtube") THEN <<"youtube">> ELSE <<>>) \o
  (IF isPlatformConfigured(cfg, "tiktok") THEN <<"tiktok">> ELSE <<>>) \o
  (IF isPlatformConfigured(cfg, "instagram") THEN <<"instagram">> ELSE <<>>)

\* setAccessToken without the check that the youtube section exists
setAccessToken_NoPresenceCheck(cfg, platform, token) ==
  CASE toLowerCase(platform) = "youtube" ->
         [config |-> [cfg EXCEPT !.youtube.accessToken = token], ret |-> TRUE]
    [] toLowerCase(platform) = "tiktok" /\ cfg.tiktok.present ->
         [config |-> [cfg EXCEPT !.tiktok.accessToken = token], ret |-> TRUE]
    [] toLowerCase(platform) = "instagram" ->
         [config |-> [cfg EXCEPT !.instagram = [present |-> TRUE, accessToken |-> token]],
          ret |-> TRUE]
    [] OTHER -> [config |-> cfg, ret |-> FALSE]

\* setAccessToken: the store after the call and the value returned
setAccessToken(cfg, platform, token) ==
  CASE toLowerCase(platform) = "youtube" /\ cfg.youtube.present ->
         [config |-> [cfg EXCEPT !.youtube.accessToken = token], ret |-> TRUE]
    [] toLowerCase(platform) = "tiktok" /\ cfg.tiktok.present ->
         [config |-> [cfg EXCEPT !.tiktok.accessToken = token], ret |-> TRUE]
    [] toLowerCase(platform) = "instagram" ->
         [config |-> [cfg EXCEPT !.instagram = [present |-> TRUE, accessToken |-> token]],
          ret |-> TRUE]
    [] OTHER -> [config |-> cfg, ret |-> FALSE]

\* the access token the store holds for a platform ("" when none)
AccessToken(cfg, p) ==
  CASE p = "youtube" -> cfg.youtube.accessToken
    [] p = "tiktok" -> cfg.tiktok.accessToken
    [] p = "instagram" -> cfg.instagram.accessToken
    [] OTHER -> ""

-----------------------------------------------------------------------------
(* Authorization URL builder *)

\* caller origins; "" is an absent baseUrl argument
BaseUrls == {"", "localhost:5000", "app.example.com", "127.0.0.1:5000"}

\* thisHost.includes('localhost')
includesLocalhost(h) == h \in {"localhost:5000"}

NullUrl ==
  [endpoint |-> "null", clientId |-> "", redirectProtocol |-> "", redirectHost |-> "",
   redirectPath |-> "", accessType |-> ""]

\* baseUrl || 'localhost:5000'
thisHost(baseUrl) == IF Truthy(baseUrl) THEN baseUrl ELSE "localhost:5000"

protocol(host) == IF includesLocalhost(host) THEN "http" ELSE "https"

\* The URL is kept as its endpoint, its client id parameter, the three parts
\* of the redirect_uri parameter and its access_type parameter.
getAuthorizationUrl(cfg, e, platform, baseUrl) ==
  CASE toLowerCase(platform) = "youtube" ->
         IF ~Truthy(cfg.youtube.clientId) THEN NullUrl
         ELSE [endpoint |-> "https://accounts.google.com/o/oauth2/auth",
               clientId |-> cfg.youtube.clientId,
               redirectProtocol |-> protocol(thisHost(baseUrl)),
               redirectHost |-> thisHost(baseUrl),
               redirectPath |-> "/api/auth/youtube/callback",
               accessType |-> "offline"]
    [] toLowerCase(platform) = "tiktok" ->
         IF ~Truthy(cfg.tiktok.clientKey) THEN NullUrl
         ELSE [endpoint |-> "https://www.tiktok.com/auth/authorize/",
               clientId |-> cfg.tiktok.clientKey,
               redirectProtocol |-> protocol(thisHost(baseUrl)),
               redirectHost |-> thisHost(baseUrl),
               redirectPath |-> "/api/auth/tiktok/callback",
               accessType |-> ""]
    [] toLowerCase(platform) = "instagram" ->
         IF ~Truthy(e["FACEBOOK_APP_ID"]) THEN NullUrl
         ELSE [endpoint |-> "https://www.facebook.com/v16.0/dialog/oauth",
               clientId |-> e["FACEBOOK_APP_ID"],
               redirectProtocol |-> protocol(thisHost(baseUrl)),
               redirectHost |-> thisHost(baseUrl),
               redirectPath |-> "/api/auth/instagram/callback",
               accessType |-> ""]
    [] OTHER -> NullUrl

-----------------------------------------------------------------------------
(* Videos and the media file of a video *)

\* video.videoUrl: none, a string new URL() rejects, a well-formed URL whose
\* file is gone, a well-formed URL whose file exists
VideoUrls == {"", "//", "/generated/missing.mp4", "/generated/video_1.mp4"}

Videos ==
  {[id |-> 1, userId |-> 1, title |-> "demo", videoUrl |-> u] : u \in VideoUrls}

\* files present under public/generated
GeneratedFiles == {"video_1.mp4"}

\* new URL(videoUrl, 'http://localhost').pathname; the constructor throws a
\* TypeError on a string that has no host after its authority slashes
\* (two backslashes count as the authority slashes).  A relative name is
\* resolved against the root; '#' starts the fragment, so the pathname of a
\* string sanitizeInput has escaped ends before its first "&#x2F;".
urlPathname(u) ==
  CASE u = "//" -> [threw |-> TRUE, pathname |-> ""]
    [] u = "\\\\" -> [threw |-> TRUE, pathname |-> ""]
    [] u = "video_1.mp4" -> [threw |-> FALSE, pathname |-> "/video_1.mp4"]
    [] u = "&#x2F;generated&#x2F;video_1.mp4" -> [threw |-> FALSE, pathname |-> "/&"]
    [] OTHER -> [threw |-> FALSE, pathname |-> u]

\* path.basename
basename(pathname) ==
  CASE pathname = "/generated/missing.mp4" -> "missing.mp4"
    [] pathname = "/generated/video_1.mp4" -> "video_1.mp4"
    [] pathname = "/video_1.mp4" -> "video_1.mp4"
    [] pathname = "/&" -> "&"
    [] OTHER -> pathname

\* fs.access(path.join(cwd, 'public', 'generated', name)) resolves
fileExists(name) == name \in GeneratedFiles

-----------------------------------------------------------------------------
(* Platform adapters: the PublishResult and whether the upload was done *)

PublishResult(success, platform, url, message, error) ==
  [success |-> success, platform |-> platform, url |-> url,
   message |-> message, error |-> error]

publishToYoutube(cfg, video, videoFilePath) ==
  IF ~Truthy(cfg.youtube.accessToken)
  THEN [result |-> PublishResult(FALSE, "youtube", "", "",
                    "YouTube not authorized. Please connect your YouTube account."),
        uploaded |-> FALSE]
  ELSE [result |-> PublishResult(TRUE, "youtube", "https://youtube.com/watch?v=dQw4w9WgXcQ",
                    "Video successfully published to YouTube", ""),
        uploaded |-> TRUE]

\* publishToTikTok reporting a success without the URL of the upload
publishToTikTok_NoUrl(cfg, video, videoFilePath) ==
  IF ~Truthy(cfg.tiktok.accessToken)
  THEN [result |-> PublishResult(FALSE, "tiktok", "", "",
                    "TikTok not authorized. Please connect your TikTok account."),
        uploaded |-> FALSE]
  ELSE [result |-> PublishResult(TRUE, "tiktok", "",
                    "Video successfully published to TikTok", ""),
        uploaded |-> TRUE]

publishToTikTok(cfg, video, videoFilePath) ==
  IF ~Truthy(cfg.tiktok.accessToken)
  THEN [result |-> PublishResult(FALSE, "tiktok", "", "",
                    "TikTok not authorized. Please connect your TikTok account."),
        uploaded |-> FALSE]
  ELSE [result |-> PublishResult(TRUE, "tiktok", "https://tiktok.com/@username/video/1234567890",
                    "Video successfully published to TikTok", ""),
        uploaded |-> TRUE]

\* publishToInstagram without its access-token check
publishToInstagram_NoTokenCheck(cfg, video, videoFilePath) ==
  [result |-> PublishResult(TRUE, "instagram", "https://instagram.com/p/AbCdEfGh123",
                "Video successfully published to Instagram", ""),
   uploaded |-> TRUE]

publishToInstagram(cfg, video, videoFilePath) ==
  IF ~Truthy(cfg.instagram.accessToken)
  THEN [result |-> PublishResult(FALSE, "instagram", "", "",
                    "Instagram not authorized. Please connect your Instagram account."),
        uploaded |-> FALSE]
  ELSE [result |-> PublishResult(TRUE, "instagram", "https://instagram.com/p/AbCdEfGh123",
                    "Video successfully published to Instagram", ""),
        uploaded |-> TRUE]

-----------------------------------------------------------------------------
(* Publish orchestrator *)

\* what one publishVideo call did: threw, or returned results; the adapters
\* it invoked and the platforms it uploaded to, in order
Outcome(threw, results, adapters, uploads) ==
  [threw |-> threw, results |-> results, adapters |-> adapters, uploads |-> uploads]

\* the known platform ids of the switch in publishVideo
KnownPlatform(platform) == toLowerCase(platform) \in {"youtube", "tiktok", "instagram"}

\* publishStep with a default case that pushes nothing
publishStep_SkipUnknown(cfg, video, videoFilePath, platform, acc) ==
  LET a == CASE toLowerCase(platform) = "youtube" ->
                  publishToYoutube(cfg, video, videoFilePath)
             [] toLowerCase(platform) = "tiktok" ->
                  publishToTikTok(cfg, video, videoFilePath)
             [] OTHER -> publishToInstagram(cfg, video, videoFilePath)
  IN IF ~KnownPlatform(platform) THEN acc
     ELSE Outcome(FALSE,
                  Append(acc.results, a.result),
                  Append(acc.adapters, toLowerCase(platform)),
                  IF a.uploaded THEN Append(acc.uploads, toLowerCase(platform))
                  ELSE acc.uploads)

\* publishStep whose default case hands the video to the youtube adapter
publishStep_DefaultYoutube(cfg, video, videoFilePath, platform, acc) ==
  LET a == CASE toLowerCase(platform) = "tiktok" ->
                  publishToTikTok(cfg, video, videoFilePath)
             [] toLowerCase(platform) = "instagram" ->
                  publishToInstagram(cfg, video, videoFilePath)
             [] OTHER -> publishToYoutube(cfg, video, videoFilePath)
  IN Outcome(FALSE,
             Append(acc.results, a.result),
             Append(acc.adapters, a.result.platform),
             IF a.uploaded THEN Append(acc.uploads, a.result.platform) ELSE acc.uploads)

\* one iteration of `for (const platform of platforms)`
publishStep(cfg, video, videoFilePath, platform, acc) ==
  LET a == CASE toLowerCase(platform) = "youtube" ->
                  publishToYoutube(cfg, video, videoFilePath)
             [] toLowerCase(platform) = "tiktok" ->
                  publishToTikTok(cfg, video, videoFilePath)
             [] toLowerCase(platform) = "instagram" ->
                  publishToInstagram(cfg, video, videoFilePath)
             [] OTHER -> [result |-> PublishResult(FALSE, platform, "", "",
                                                    "Unsupported platform: " \o platform),
                          uploaded |-> FALSE]
  IN Outcome(FALSE,
             Append(acc.results, a.result),
             IF KnownPlatform(platform) THEN Append(acc.adapters, toLowerCase(platform)) ELSE acc.adapters,
             IF a.uploaded THEN Append(acc.uploads, toLowerCase(platform)) ELSE acc.uploads)

\* publishLoop that leaves the loop at the first failing result
RECURSIVE publishLoop_StopOnFailure(_, _, _, _, _, _)
publishLoop_StopOnFailure(cfg, video, videoFilePath, platforms, i, acc) ==
  IF i > Len(platforms) THEN acc
  ELSE LET next == publishStep(cfg, video, videoFilePath, platforms[i], acc)
       IN IF ~next.results[Len(next.results)].success THEN next
          ELSE publishLoop_StopOnFailure(cfg, video, videoFilePath, platforms, i + 1, next)

RECURSIVE publishLoop(_, _, _, _, _, _)
publishLoop(cfg, video, videoFilePath, platforms, i, acc) ==
  IF i > Len(platforms) THEN acc
  ELSE publishLoop(cfg, video, videoFilePath, platforms, i + 1,
                   publishStep(cfg, video, videoFilePath, platforms[i], acc))

publishVideo(cfg, video, platforms) ==
  IF ~Truthy(video.videoUrl)
  THEN Outcome(FALSE, <<PublishResult(FALSE, "all", "", "", "No video URL available")>>,
               <<>>, <<>>)
  ELSE LET parsed == urlPathname(video.videoUrl)
           videoFileName == basename(parsed.pathname)
       IN IF parsed.threw THEN Outcome(TRUE, <<>>, <<>>, <<>>)
          ELSE IF ~fileExists(videoFileName)
          THEN Outcome(FALSE, <<PublishResult(FALSE, "all", "", "", "Video file not found")>>,
                       <<>>, <<>>)
          ELSE publishLoop(cfg, video, videoFileName, platforms, 1,
                           Outcome(FALSE, <<>>, <<>>, <<>>))

\* the video's media location resolves to an existing file
MediaResolves(video) ==
  /\ Truthy(video.videoUrl)
  /\ ~urlPathname(video.videoUrl).threw
  /\ fileExists(basename(urlPathname(video.videoUrl).pathname))

PlatformLists == UNION {[1..n -> PlatformIds] : n \in 0..MaxPlatforms}

-----------------------------------------------------------------------------
(* The record of a completed call *)

NoCall ==
  [op |-> "none", platform |-> "", token |-> "", baseUrl |-> "",
   video |-> [id |-> 0, userId |-> 0, title |-> "", videoUrl |-> ""],
   platforms |-> <<>>, code |-> "", error |-> "",
   retBool |-> FALSE, retUrl |-> NullUrl, retList |-> <<>>,
   threw |-> FALSE, results |-> <<>>, adapters |-> <<>>, uploads |-> <<>>,
   status |-> 0, page |-> "", pre |-> EmptyConfig,
   replayed |-> FALSE, idParam |-> "", acts |-> <<>>, videosBefore |-> <<>>,
   videosAtStart |-> <<>>]

Idle == call.op = "none"

\* no publish request is suspended
NoRequest ==
  [active |-> FALSE, idParam |-> "", video |-> NoCall.video, platforms |-> <<>>,
   acts |-> <<>>, videosAtStart |-> <<>>]

-----------------------------------------------------------------------------
(* Construction *)

\* new SocialMediaService(): loadConfig() on the empty config.  process.env
\* holds any subset of the keys; nothing in the program assigns it, so it
\* keeps its value for the whole run.
Init ==
  /\ env \in {[k \in EnvKeys |-> IF k \in S THEN EnvValue[k] ELSE ""] : S \in SUBSET EnvKeys}
  /\ config = loadConfig(EmptyConfig, env)
  /\ call = NoCall
  /\ exchanged = {}
  /\ videos = <<>>
  /\ videoIdCounter = 1
  /\ req = NoRequest
  /\ activityFails = FALSE

-----------------------------------------------------------------------------
(* SocialMediaService methods *)

ReloadConfig ==
  /\ Idle
  /\ config' = loadConfig(config, env)
  /\ call' = [NoCall EXCEPT !.op = "reloadConfig", !.pre = config]
  /\ UNCHANGED env
  /\ UNCHANGED <<exchanged, storage>>

IsPlatformConfigured(p) ==
  /\ Idle
  /\ call' = [NoCall EXCEPT !.op = "isPlatformConfigured", !.platform = p,
                            !.retBool = isPlatformConfigured(config, p), !.pre = config]
  /\ UNCHANGED <<env, config>>
  /\ UNCHANGED <<exchanged, storage>>

GetConfiguredPlatforms ==
  /\ Idle
  /\ call' = [NoCall EXCEPT !.op = "getConfiguredPlatforms",
                            !.retList = getConfiguredPlatforms(config), !.pre = config]
  /\ UNCHANGED <<env, config>>
  /\ UNCHANGED <<exchanged, storage>>

SetAccessToken(p, t) ==
  /\ Idle
  /\ LET r == setAccessToken(config, p, t)
     IN /\ config' = r.config
        /\ call' = [NoCall EXCEPT !.op = "setAccessToken", !.platform = p, !.token = t,
                                  !.retBool = r.ret, !.pre = config]
  /\ UNCHANGED env
  /\ UNCHANGED <<exchanged, storage>>

GetAuthorizationUrl(p, b) ==
  /\ Idle
  /\ call' = [NoCall EXCEPT !.op = "getAuthorizationUrl", !.platform = p, !.baseUrl = b,
                            !.retUrl = getAuthorizationUrl(config, env, p, b), !.pre = config]
  /\ UNCHANGED <<env, config>>
  /\ UNCHANGED <<exchanged, storage>>

PublishVideo(v, ps) ==
  /\ Idle
  /\ LET o == publishVideo(config, v, ps)
     IN call' = [NoCall EXCEPT !.op = "publishVideo", !.video = v, !.platforms = ps,
                               !.threw = o.threw, !.results = o.results,
                               !.adapters = o.adapters, !.uploads = o.uploads,
                               !.pre = config]
  /\ UNCHANGED <<env, config>>
  /\ UNCHANGED <<exchanged, storage>>

-----------------------------------------------------------------------------
(* HTTP handlers *)

\* GET /api/social-media/auth-url/:platform ; h is the Host header ("" when
\* the request has none).  sanitizeInput leaves the ids of PlatformIds as
\* they are.
AuthUrlRoute(p, h) ==
  /\ Idle
  /\ LET reloaded == loadConfig(config, env)
         host == IF Truthy(h) THEN h ELSE "localhost:5000"
         authUrl == getAuthorizationUrl(reloaded, env, p, host)
     IN /\ config' = reloaded
        /\ call' = [NoCall EXCEPT !.op = "authUrlRoute", !.platform = p, !.baseUrl = h,
                                  !.retUrl = authUrl,
                                  !.status = IF authUrl = NullUrl THEN 400 ELSE 200,
                                  !.pre = config]
  /\ UNCHANGED env
  /\ UNCHANGED <<exchanged, storage>>

\* query parameters of an OAuth callback ("" when absent)
Codes == {"", "auth-code-1"}
Errors == {"", "access_denied"}

\* the YouTube callback with the code test ahead of the error test
YoutubeCallback_CodeFirst(code, error) ==
  /\ Idle
  /\ LET base == [NoCall EXCEPT !.op = "oauthCallback", !.platform = "youtube",
                                !.code = code, !.error = error, !.pre = config,
                                !.replayed = code \in exchanged]
     IN IF ~Truthy(code) /\ Truthy(error)
        THEN /\ call' = [base EXCEPT !.status = 400, !.page = "YouTube Connection Failed"]
             /\ UNCHANGED <<config, exchanged>>
        ELSE IF ~Truthy(code)
        THEN /\ call' = [base EXCEPT !.status = 400, !.page = "Invalid Request"]
             /\ UNCHANGED <<config, exchanged>>
        ELSE IF ~Truthy(env["YOUTUBE_CLIENT_ID"]) \/ ~Truthy(env["YOUTUBE_CLIENT_SECRET"])
        THEN /\ call' = [base EXCEPT !.status = 500, !.page = "Connection Error"]
             /\ UNCHANGED <<config, exchanged>>
        ELSE LET r == setAccessToken(config, "youtube", "simulated_access_token")
             IN /\ config' = r.config
                /\ call' = [base EXCEPT !.status = 200, !.page = "YouTube Connected",
                                        !.token = "simulated_access_token",
                                        !.retBool = r.ret]
                /\ exchanged' = exchanged \cup {code}
  /\ UNCHANGED <<env, storage>>

\* the YouTube callback without the test that a code is present
YoutubeCallback_NoCodeCheck(code, error) ==
  /\ Idle
  /\ LET base == [NoCall EXCEPT !.op = "oauthCallback", !.platform = "youtube",
                                !.code = code, !.error = error, !.pre = config,
                                !.replayed = code \in exchanged]
     IN IF Truthy(error)
        THEN /\ call' = [base EXCEPT !.status = 400, !.page = "YouTube Connection Failed"]
             /\ UNCHANGED <<config, exchanged>>
        ELSE IF ~Truthy(env["YOUTUBE_CLIENT_ID"]) \/ ~Truthy(env["YOUTUBE_CLIENT_SECRET"])
        THEN /\ call' = [base EXCEPT !.status = 500, !.page = "Connection Error"]
             /\ UNCHANGED <<config, exchanged>>
        ELSE LET r == setAccessToken(config, "youtube", "simulated_access_token")
             IN /\ config' = r.config
                /\ call' = [base EXCEPT !.status = 200, !.page = "YouTube Connected",
                                        !.token = "simulated_access_token",
                                        !.retBool = r.ret]
                /\ exchanged' = exchanged \cup {code}
  /\ UNCHANGED <<env, storage>>

\* GET /api/auth/youtube/callback
YoutubeCallback(code, error) ==
  /\ Idle
  /\ LET base == [NoCall EXCEPT !.op = "oauthCallback", !.platform = "youtube",
                                !.code = code, !.error = error, !.pre = config,
                                !.replayed = code \in exchanged]
     IN IF Truthy(error)
        THEN /\ call' = [base EXCEPT !.status = 400, !.page = "YouTube Connection Failed"]
             /\ UNCHANGED <<config, exchanged>>
        ELSE IF ~Truthy(code)
        THEN /\ call' = [base EXCEPT !.status = 400, !.page = "Invalid Request"]
             /\ UNCHANGED <<config, exchanged>>
        ELSE IF ~Truthy(env["YOUTUBE_CLIENT_ID"]) \/ ~Truthy(env["YOUTUBE_CLIENT_SECRET"])
        THEN /\ call' = [base EXCEPT !.status = 500, !.page = "Connection Error"]
             /\ UNCHANGED <<config, exchanged>>
        ELSE LET r == setAccessToken(config, "youtube", "simulated_access_token")
             IN /\ config' = r.config
                /\ call' = [base EXCEPT !.status = 200, !.page = "YouTube Connected",
                                        !.token = "simulated_access_token",
                                        !.retBool = r.ret]
                /\ exchanged' = exchanged \cup {code}
  /\ UNCHANGED <<env, storage>>

\* GET /api/auth/tiktok/callback and /api/auth/instagram/callback: the redirect
\* targets of getAuthorizationUrl; registerRoutes registers no handler for
\* them, so the request falls through the API routes and nothing is stored.
\* The response comes from whatever is mounted behind the API routes and is
\* recorded as status 0, page "no route".
UnroutedCallback(p, code, error) ==
  /\ Idle
  /\ call' = [NoCall EXCEPT !.op = "oauthCallback", !.platform = p,
                            !.code = code, !.error = error, !.pre = config,
                            !.replayed = code \in exchanged,
                            !.status = 0, !.page = "no route"]
  /\ UNCHANGED <<env, config>>
  /\ UNCHANGED <<exchanged, storage>>

\* the response of the completed call is delivered
Respond ==
  /\ ~Idle
  /\ call' = NoCall
  /\ UNCHANGED <<env, config>>
  /\ UNCHANGED <<exchanged, storage>>

-----------------------------------------------------------------------------

Next ==
  \/ ReloadConfig
  \/ \E p \in PlatformIds : IsPlatformConfigured(p)
  \/ GetConfiguredPlatforms
  \/ \E p \in PlatformIds, t \in Tokens : SetAccessToken(p, t)
  \/ \E p \in PlatformIds, b \in BaseUrls : GetAuthorizationUrl(p, b)
  \/ \E v \in Videos, ps \in PlatformLists : PublishVideo(v, ps)
  \/ \E p \in PlatformIds, h \in BaseUrls : AuthUrlRoute(p, h)
  \/ \E code \in Codes, error \in Errors : YoutubeCallback(code, error)
  \/ \E p \in {"tiktok", "instagram"}, code \in Codes, error \in Errors :
       UnroutedCallback(p, code, error)
  \/ Respond

Spec == Init /\ [][Next]_vars

-----------------------------------------------------------------------------
(* Properties of publishVideo *)

Published == call.op = "publishVideo"

\* the platform field the result for a requested id carries
ResultPlatform(id) == IF KnownPlatform(id) THEN toLowerCase(id) ELSE id

\* C1: when the media location resolves to an existing file, publishVideo
\* returns exactly one result per requested platform, and result i is the
\* result for the platform requested at position i.
C1_OneResultPerPlatformInOrder ==
  (Published /\ MediaResolves(call.video)) =>
    /\ ~call.threw
    /\ Len(call.results) = Len(call.platforms)
    /\ \A i \in 1..Len(call.platforms) :
         call.results[i].platform = ResultPlatform(call.platforms[i])

\* a request in the order tiktok, youtube where tiktok failed and youtube
\* succeeded
C1_Witness ==
  /\ Published /\ MediaResolves(call.video)
  /\ call.platforms = <<"tiktok", "youtube">>
  /\ Len(call.results) = 2
  /\ ~call.results[1].success /\ call.results[1].platform = "tiktok"
  /\ call.results[2].success /\ call.results[2].platform = "youtube"

\* C2: a failing result never stops the platforms after it from being
\* attempted, and the result of each platform depends only on whether the
\* store holds an access token for that platform.
C2_FailureIsolation ==
  (Published /\ MediaResolves(call.video)) =>
    /\ \A i \in 1..Len(call.platforms) :
         /\ i <= Len(call.results)
         /\ call.results[i].success <=>
              (KnownPlatform(call.platforms[i])
                 /\ Truthy(AccessToken(call.pre, toLowerCase(call.platforms[i]))))
    /\ Len(call.adapters) =
         Cardinality({i \in 1..Len(call.platforms) : KnownPlatform(call.platforms[i])})

\* an unauthorized platform fails ahead of an authorized platform, which is
\* still attempted and succeeds
C2_Witness ==
  /\ Published /\ MediaResolves(call.video)
  /\ call.platforms = <<"youtube", "instagram">>
  /\ ~Truthy(AccessToken(call.pre, "youtube"))
  /\ Truthy(AccessToken(call.pre, "instagram"))
  /\ ~call.results[1].success /\ call.results[2].success
  /\ call.adapters = <<"youtube", "instagram">>

\* C3: publishVideo never throws or rejects, whatever the video and the
\* platform list.
C3_NeverThrows == Published => ~call.threw

-----------------------------------------------------------------------------
(* Properties of the credential store *)

ThreePlatforms == {"youtube", "tiktok", "instagram"}

\* the calls that C4 names as leaving the access tokens alone
ReadOnlyOps ==
  {"reloadConfig", "isPlatformConfigured", "getConfiguredPlatforms",
   "getAuthorizationUrl", "publishVideo"}

\* C4: once an OAuth completion has stored an access token, reload,
\* isConfigured, listConfiguredPlatforms, getAuthorizationUrl and publish
\* leave it unchanged.
C4_OnlySetAccessTokenChangesToken ==
  (call.op \in ReadOnlyOps) =>
    \A p \in ThreePlatforms :
      AccessToken(call.pre, p) = "simulated_access_token" =>
        AccessToken(config, p) = AccessToken(call.pre, p)

\* C5: setAccessToken on an unconfigured platform returns false and leaves
\* the store unchanged; on a configured platform it stores the token and
\* returns true.
C5_SetAccessTokenNeedsConfigured ==
  (call.op = "setAccessToken" /\ call.platform \in ThreePlatforms) =>
    IF isPlatformConfigured(call.pre, call.platform)
    THEN call.retBool /\ AccessToken(config, call.platform) = call.token
    ELSE ~call.retBool /\ config = call.pre

NotAuthorizedErrors ==
  {"YouTube not authorized. Please connect your YouTube account.",
   "TikTok not authorized. Please connect your TikTok account.",
   "Instagram not authorized. Please connect your Instagram account."}

\* C6: for a platform that is not configured, getAuthorizationUrl returns
\* null and a publish that includes it returns a NOT_AUTHORIZED result for it.
C6_UnconfiguredHasNoUrlAndNoPublish ==
  /\ (call.op = "getAuthorizationUrl" /\ call.platform \in ThreePlatforms
        /\ ~isPlatformConfigured(call.pre, call.platform))
       => call.retUrl = NullUrl
  /\ (Published /\ MediaResolves(call.video) /\ ~call.threw) =>
       \A i \in 1..Len(call.platforms) :
         (call.platforms[i] \in ThreePlatforms
            /\ ~isPlatformConfigured(call.pre, call.platforms[i])) =>
           /\ i <= Len(call.results)
           /\ ~call.results[i].success
           /\ call.results[i].error \in NotAuthorizedErrors

\* C7: an adapter whose platform has no access token in the store returns a
\* non-succeeding not-authorized result without a remote URL and uploads
\* nothing, also when the platform is configured.
C7_NoTokenNoUpload ==
  (Published /\ MediaResolves(call.video)) =>
    \A i \in 1..Len(call.platforms) :
      (KnownPlatform(call.platforms[i])
         /\ ~Truthy(AccessToken(call.pre, toLowerCase(call.platforms[i])))) =>
        /\ i <= Len(call.results)
        /\ ~call.results[i].success
        /\ call.results[i].error \in NotAuthorizedErrors
        /\ call.results[i].url = ""
        /\ \A j \in 1..Len(call.uploads) :
             call.uploads[j] # toLowerCase(call.platforms[i])

\* youtube is configured but holds no token, instagram holds a token: the
\* instagram adapter uploads, the youtube adapter does not
C7_Witness ==
  /\ Published /\ MediaResolves(call.video)
  /\ call.platforms = <<"instagram", "youtube">>
  /\ isPlatformConfigured(call.pre, "youtube")
  /\ ~Truthy(AccessToken(call.pre, "youtube"))
  /\ call.uploads = <<"instagram">>
  /\ call.results[2].error = "YouTube not authorized. Please connect your YouTube account."

\* C8: a video without a media location, or whose media location does not
\* resolve to an existing file, gets exactly one non-succeeding result with
\* platform "all", and no adapter is invoked.
C8_NoMediaSingleResult ==
  (Published /\ ~MediaResolves(call.video)) =>
    /\ ~call.threw
    /\ Len(call.results) = 1
    /\ call.results[1].platform = "all"
    /\ ~call.results[1].success
    /\ call.adapters = <<>>

-----------------------------------------------------------------------------
(* Properties of the OAuth callback *)

Callback == call.op = "oauthCallback"

\* C9: an OAuth callback for a configured platform that carries a code
\* stores an access token through setAccessToken and returns the success
\* response, so that the platform is authorized afterwards; a failed
\* exchange returns a terminal failure and leaves the store unchanged.
C9_CallbackWithCodeAuthorizes ==
  (Callback /\ call.platform \in ThreePlatforms
     /\ Truthy(call.code) /\ ~Truthy(call.error)
     /\ isPlatformConfigured(call.pre, call.platform)) =>
    \/ /\ call.status = 200
       /\ call.retBool
       /\ Truthy(AccessToken(config, call.platform))
    \/ /\ call.status = 500
       /\ config = call.pre

-----------------------------------------------------------------------------
(* Single use of authorization codes *)

\* C11: a callback that carries a code which was already exchanged ends in
\* a failure and does not change the credential store.
C11_CodeExchangedOnce ==
  (Callback /\ Truthy(call.code) /\ call.replayed) =>
    /\ call.status # 200
    /\ config = call.pre

-----------------------------------------------------------------------------
(* The configuration source changing between loads *)

\* The deployment sets or removes one variable of the configuration source
\* while the server runs; the service only notices at the next reloadConfig.
EnvChange(k) ==
  /\ Idle
  /\ env' = [env EXCEPT ![k] = IF Truthy(env[k]) THEN "" ELSE EnvValue[k]]
  /\ UNCHANGED <<config, call, exchanged, storage>>

NextEnv ==
  \/ \E k \in EnvKeys : EnvChange(k)
  \/ ReloadConfig
  \/ \E p \in PlatformIds : IsPlatformConfigured(p)
  \/ \E p \in PlatformIds, t \in Tokens : SetAccessToken(p, t)
  \/ \E c \in Codes, e \in Errors : YoutubeCallback(c, e)
  \/ Respond

SpecEnv == Init /\ [][NextEnv]_vars

\* the values loadConfig reads for a platform are all set in the source
SourceHolds(e, platform) ==
  CASE platform = "youtube" ->
         Truthy(e["YOUTUBE_CLIENT_ID"]) /\ Truthy(e["YOUTUBE_CLIENT_SECRET"])
    [] platform = "tiktok" ->
         Truthy(e["TIKTOK_CLIENT_KEY"]) /\ Truthy(e["TIKTOK_CLIENT_SECRET"])
    [] platform = "instagram" -> Truthy(e["INSTAGRAM_ACCESS_TOKEN"])
    [] OTHER -> FALSE

\* C12: right after a reload, a platform is configured exactly when the
\* configuration source holds its values at that moment, whatever an
\* earlier load had found.
C12_ReloadFollowsSource ==
  call.op = "reloadConfig" =>
    \A p \in ThreePlatforms : isPlatformConfigured(config, p) <=> SourceHolds(env, p)

\* C14: whenever the store holds an access token for a platform, that
\* platform is reported configured (authorized implies configured).
C14_AuthorizedImpliesConfigured ==
  \A p \in ThreePlatforms :
    Truthy(AccessToken(config, p)) => isPlatformConfigured(config, p)

\* a token is stored for tiktok after its id and secret left the source
C14_Witness ==
  /\ call.op = "setAccessToken"
  /\ call.platform = "tiktok"
  /\ call.retBool
  /\ AccessToken(config, "tiktok") = call.token
  /\ ~SourceHolds(env, "tiktok")
  /\ isPlatformConfigured(config, "tiktok")

-----------------------------------------------------------------------------
(* Configuration queries and the authorization URL *)

\* the store holds both the client identifier and the client secret of a
\* platform; the instagram section has no field for either
HoldsIdAndSecret(cfg, p) ==
  CASE p = "youtube" -> Truthy(cfg.youtube.clientId) /\ Truthy(cfg.youtube.clientSecret)
    [] p = "tiktok" -> Truthy(cfg.tiktok.clientKey) /\ Truthy(cfg.tiktok.clientSecret)
    [] OTHER -> FALSE

\* C13: for youtube, tiktok and instagram, isPlatformConfigured answers true
\* exactly when the store holds the platform's client identifier and client
\* secret, whether or not an access token is present.
C13_ConfiguredIffIdAndSecret ==
  (call.op = "isPlatformConfigured" /\ call.platform \in ThreePlatforms) =>
    (call.retBool <=> HoldsIdAndSecret(call.pre, call.platform))

\* the two queries C15 is about
Queried == call.op \in {"isPlatformConfigured", "getAuthorizationUrl"}

QueryRefused ==
  /\ ~call.threw
  /\ call.op = "isPlatformConfigured" => ~call.retBool
  /\ call.op = "getAuthorizationUrl" => call.retUrl = NullUrl

\* C15 as stated: every id that is not one of the strings youtube, tiktok,
\* instagram gets false from isPlatformConfigured and null from
\* getAuthorizationUrl.
C15_UnknownIdRefused ==
  (Queried /\ call.platform \notin ThreePlatforms) => QueryRefused

\* C15: every id whose lower-case form is not youtube, tiktok or instagram
\* gets false from isPlatformConfigured and null from getAuthorizationUrl,
\* and neither call throws.
C15_UnknownLowerCasedIdRefused ==
  (Queried /\ toLowerCase(call.platform) \notin ThreePlatforms) => QueryRefused

\* an unknown id is refused while youtube is configured
C15_Witness ==
  /\ call.op = "isPlatformConfigured"
  /\ call.platform = "vimeo"
  /\ ~call.retBool
  /\ isPlatformConfigured(config, "youtube")

\* localhost or a loopback address
LoopbackLike(o) == o \in {"localhost:5000", "127.0.0.1:5000"}

\* C16: for a configured platform p and a caller origin o, the URL returned
\* is not null and redirects to {protocol}://o/api/auth/p/callback, with
\* http exactly for loopback-like origins; for youtube it carries the
\* configured client id and access_type=offline.
C16_AuthorizationUrlShape ==
  ( /\ call.op = "getAuthorizationUrl"
    /\ call.platform \in ThreePlatforms
    /\ isPlatformConfigured(call.pre, call.platform)
    /\ Truthy(call.baseUrl) ) =>
      /\ call.retUrl # NullUrl
      /\ call.retUrl.redirectProtocol =
           (IF LoopbackLike(call.baseUrl) THEN "http" ELSE "https")
      /\ call.retUrl.redirectHost = call.baseUrl
      /\ call.retUrl.redirectPath = "/api/auth/" \o call.platform \o "/callback"
      /\ call.platform = "youtube" =>
           /\ call.retUrl.clientId = call.pre.youtube.clientId
           /\ call.retUrl.accessType = "offline"

\* the sources that differ from e at most in variables loadConfig never
\* reads into the store: the store goes through the same states under each
StoreEquivalentEnvs(e) ==
  {[e EXCEPT !["FACEBOOK_APP_ID"] = v] : v \in {"", EnvValue["FACEBOOK_APP_ID"]}}

\* C17: getAuthorizationUrl leaves the store as it was, and the value it
\* returns is the one the same call returns in every run that has the same
\* store state.
C17_AuthorizationUrlPure ==
  call.op = "getAuthorizationUrl" =>
    /\ config = call.pre
    /\ \A e2 \in StoreEquivalentEnvs(env) :
         getAuthorizationUrl(call.pre, e2, call.platform, call.baseUrl) = call.retUrl

-----------------------------------------------------------------------------
(* Video storage and the video routes *)

\* the ids createVideo hands out in the model
VideoIds == {1}

\* :id path parameters: a number, a number followed by letters, letters
IdParams == {"1", "1abc", "abc"}

\* parseInt(req.params.id): the number the leading digits spell, or NaN when
\* the string starts with no digit
parseInt(s) ==
  IF s \in {"1", "1abc"} THEN [nan |-> FALSE, n |-> 1] ELSE [nan |-> TRUE, n |-> 0]

\* videoUrl values a client posts: none, a bare file name, the URL the
\* generator hands out, two backslashes
PostedUrls == {"", "video_1.mp4", "/generated/video_1.mp4", "\\\\"}

\* sanitizeInput on a string: every '/' becomes "&#x2F;" (the strings of the
\* model hold none of the other escaped characters)
sanitizeInput(s) ==
  CASE s = "/generated/video_1.mp4" -> "&#x2F;generated&#x2F;video_1.mp4"
    [] s = "//" -> "&#x2F;&#x2F;"
    [] OTHER -> s

\* status values a client puts
PutStatuses == {"draft"}

\* an entry of the activity log
Activity(action, videoId, platforms) ==
  [action |-> action, videoId |-> videoId, platforms |-> platforms]

\* this.videos.set(id, video)
MapSet(vs, id, video) == [i \in DOMAIN vs \cup {id} |-> IF i = id THEN video ELSE vs[i]]

\* this.videos.delete(id)
MapDelete(vs, id) ==
  IF DOMAIN vs \ {id} = {} THEN <<>> ELSE [i \in DOMAIN vs \ {id} |-> vs[i]]

\* POST /api/videos ; valid says whether the body passes insertVideoSchema.
\* createVideo stores the video before it records its activity.
CreateVideoRoute(u, valid) ==
  /\ Idle
  /\ videoIdCounter \in VideoIds
  /\ LET base == [NoCall EXCEPT !.op = "createVideo", !.videosBefore = videos]
         video == [id |-> videoIdCounter, userId |-> 1, title |-> "demo",
                   videoUrl |-> sanitizeInput(u), status |-> "draft"]
     IN IF ~valid
        THEN /\ call' = [base EXCEPT !.status = 400]
             /\ UNCHANGED <<videos, videoIdCounter>>
        ELSE /\ videos' = MapSet(videos, videoIdCounter, video)
             /\ videoIdCounter' = videoIdCounter + 1
             /\ call' = IF activityFails
                        THEN [base EXCEPT !.status = 500, !.video = video]
                        ELSE [base EXCEPT !.status = 201, !.video = video,
                                !.acts = <<Activity("create_video", video.id, <<>>)>>]
  /\ UNCHANGED <<env, config, exchanged, req, activityFails>>

\* PUT /api/videos/:id with body {status: st}
UpdateVideoRoute(idp, st) ==
  /\ Idle
  /\ LET id == parseInt(sanitizeInput(idp))
         base == [NoCall EXCEPT !.op = "updateVideo", !.idParam = idp,
                                !.videosBefore = videos]
     IN IF id.nan
        THEN /\ call' = [base EXCEPT !.status = 400, !.page = "Invalid video ID"]
             /\ UNCHANGED videos
        ELSE IF id.n \notin DOMAIN videos
        THEN /\ call' = [base EXCEPT !.status = 404, !.page = "Video not found"]
             /\ UNCHANGED videos
        ELSE /\ videos' = [videos EXCEPT ![id.n].status = st]
             /\ call' = IF activityFails
                        THEN [base EXCEPT !.status = 500]
                        ELSE [base EXCEPT !.status = 200,
                                !.acts = <<Activity("update_video", id.n, <<>>)>>]
  /\ UNCHANGED <<env, config, exchanged, videoIdCounter, req, activityFails>>

\* DELETE /api/videos/:id
DeleteVideoRoute(idp) ==
  /\ Idle
  /\ LET id == parseInt(sanitizeInput(idp))
         base == [NoCall EXCEPT !.op = "deleteVideo", !.idParam = idp,
                                !.videosBefore = videos]
     IN IF id.nan
        THEN /\ call' = [base EXCEPT !.status = 400, !.page = "Invalid video ID"]
             /\ UNCHANGED videos
        ELSE IF id.n \notin DOMAIN videos
        THEN /\ call' = [base EXCEPT !.status = 404, !.page = "Video not found"]
             /\ UNCHANGED videos
        ELSE /\ videos' = MapDelete(videos, id.n)
             /\ call' = IF activityFails
                        THEN [base EXCEPT !.status = 500]
                        ELSE [base EXCEPT !.status = 204,
                                !.acts = <<Activity("delete_video", id.n, <<>>)>>]
  /\ UNCHANGED <<env, config, exchanged, videoIdCounter, req, activityFails>>

-----------------------------------------------------------------------------
(* POST /api/videos/:id/publish *)

\* results.some(r => r.success)
SomeSuccess(results) == \E i \in 1..Len(results) : results[i].success

\* results.filter(r => r.success).map(r => r.platform)
SucceededPlatforms(results) ==
  LET ok == SelectSeq(results, LAMBDA r : r.success)
  IN [i \in 1..Len(ok) |-> ok[i].platform]

\* PublishBegin recording the video_publish_started activity before it looks
\* at the media of the video
PublishBegin_ActivityFirst(idp, ps) ==
  /\ Idle
  /\ ~req.active
  /\ LET id == parseInt(sanitizeInput(idp))
         base == [NoCall EXCEPT !.op = "publish", !.idParam = idp, !.platforms = ps,
                                !.pre = config, !.videosBefore = videos,
                                !.videosAtStart = videos]
         started == <<Activity("video_publish_started", id.n, <<>>)>>
     IN IF id.nan
        THEN /\ call' = [base EXCEPT !.status = 400, !.page = "Invalid video ID"]
             /\ UNCHANGED req
        ELSE IF Len(ps) = 0
        THEN /\ call' = [base EXCEPT !.status = 400,
                                     !.page = "At least one platform must be selected"]
             /\ UNCHANGED req
        ELSE IF id.n \notin DOMAIN videos
        THEN /\ call' = [base EXCEPT !.status = 404, !.page = "Video not found"]
             /\ UNCHANGED req
        ELSE IF ~Truthy(videos[id.n].videoUrl)
        THEN /\ call' = [base EXCEPT !.status = 400, !.video = videos[id.n],
                                     !.acts = started,
                                     !.page = "Video has not been generated yet"]
             /\ UNCHANGED req
        ELSE IF activityFails
        THEN /\ call' = [base EXCEPT !.status = 500, !.video = videos[id.n],
                                     !.page = "An unexpected error occurred"]
             /\ UNCHANGED req
        ELSE IF urlPathname(videos[id.n].videoUrl).threw
        THEN /\ call' = [base EXCEPT !.status = 500, !.video = videos[id.n],
                                     !.threw = TRUE, !.acts = started,
                                     !.page = "An unexpected error occurred"]
             /\ UNCHANGED req
        ELSE /\ req' = [active |-> TRUE, idParam |-> idp, video |-> videos[id.n],
                        platforms |-> ps, acts |-> started, videosAtStart |-> videos]
             /\ UNCHANGED call
  /\ UNCHANGED <<env, config, exchanged, videos, videoIdCounter, activityFails>>

\* The handler from its start to the point where publishVideo waits for
\* fs.access: the request is answered at once when it is rejected or when
\* new URL() throws, and is left suspended otherwise.  Everything awaited
\* before fs.access settles without leaving the current turn of the event
\* loop.
PublishBegin(idp, ps) ==
  /\ Idle
  /\ ~req.active
  /\ LET id == parseInt(sanitizeInput(idp))
         base == [NoCall EXCEPT !.op = "publish", !.idParam = idp, !.platforms = ps,
                                !.pre = config, !.videosBefore = videos,
                                !.videosAtStart = videos]
         started == <<Activity("video_publish_started", id.n, <<>>)>>
     IN IF id.nan
        THEN /\ call' = [base EXCEPT !.status = 400, !.page = "Invalid video ID"]
             /\ UNCHANGED req
        ELSE IF Len(ps) = 0
        THEN /\ call' = [base EXCEPT !.status = 400,
                                     !.page = "At least one platform must be selected"]
             /\ UNCHANGED req
        ELSE IF id.n \notin DOMAIN videos
        THEN /\ call' = [base EXCEPT !.status = 404, !.page = "Video not found"]
             /\ UNCHANGED req
        ELSE IF ~Truthy(videos[id.n].videoUrl)
        THEN /\ call' = [base EXCEPT !.status = 400, !.video = videos[id.n],
                                     !.page = "Video has not been generated yet"]
             /\ UNCHANGED req
        ELSE IF activityFails
        THEN /\ call' = [base EXCEPT !.status = 500, !.video = videos[id.n],
                                     !.page = "An unexpected error occurred"]
             /\ UNCHANGED req
        ELSE IF urlPathname(videos[id.n].videoUrl).threw
        THEN /\ call' = [base EXCEPT !.status = 500, !.video = videos[id.n],
                                     !.threw = TRUE, !.acts = started,
                                     !.page = "An unexpected error occurred"]
             /\ UNCHANGED req
        ELSE /\ req' = [active |-> TRUE, idParam |-> idp, video |-> videos[id.n],
                        platforms |-> ps, acts |-> started, videosAtStart |-> videos]
             /\ UNCHANGED call
  /\ UNCHANGED <<env, config, exchanged, videos, videoIdCounter, activityFails>>

\* The rest of the handler, from the settling of fs.access to the response:
\* the adapters, updateVideo, the video_published activity and res.json, all
\* in one turn of the event loop.  updateVideo changes the stored video
\* before it records its own activity.
PublishFinish ==
  /\ Idle
  /\ req.active
  /\ LET id == parseInt(sanitizeInput(req.idParam)).n
         o == publishVideo(config, req.video, req.platforms)
         exists == id \in DOMAIN videos
         base == [NoCall EXCEPT !.op = "publish", !.idParam = req.idParam,
                                !.platforms = req.platforms, !.video = req.video,
                                !.pre = config, !.videosBefore = videos,
                                !.videosAtStart = req.videosAtStart,
                                !.adapters = o.adapters, !.uploads = o.uploads]
         updated == IF exists THEN <<Activity("update_video", id, <<>>)>> ELSE <<>>
         published == <<Activity("video_published", id, SucceededPlatforms(o.results))>>
     IN IF ~SomeSuccess(o.results)
        THEN /\ call' = [base EXCEPT !.status = 200, !.results = o.results,
                                     !.acts = req.acts]
             /\ UNCHANGED videos
        ELSE /\ videos' = IF exists THEN [videos EXCEPT ![id].status = "published"]
                                    ELSE videos
             /\ call' = IF activityFails
                        THEN [base EXCEPT !.status = 500, !.acts = req.acts,
                                          !.page = "An unexpected error occurred"]
                        ELSE [base EXCEPT !.status = 200, !.results = o.results,
                                          !.acts = req.acts \o updated \o published]
  /\ req' = NoRequest
  /\ UNCHANGED <<env, config, exchanged, videoIdCounter, activityFails>>

\* the sources of the route specifications: every app-level value is set,
\* the three access tokens are set or not
RouteEnvs ==
  {[k \in EnvKeys |-> IF k \in S THEN "" ELSE EnvValue[k]] :
     S \in SUBSET {"YOUTUBE_ACCESS_TOKEN", "TIKTOK_ACCESS_TOKEN", "INSTAGRAM_ACCESS_TOKEN"}}

InitRoute ==
  /\ Init
  /\ env \in RouteEnvs

NextRoute ==
  \/ \E u \in PostedUrls, valid \in BOOLEAN : CreateVideoRoute(u, valid)
  \/ \E idp \in IdParams, st \in PutStatuses : UpdateVideoRoute(idp, st)
  \/ \E idp \in IdParams : DeleteVideoRoute(idp)
  \/ \E idp \in IdParams, ps \in PlatformLists : PublishBegin(idp, ps)
  \/ PublishFinish
  \/ Respond

SpecRoute == InitRoute /\ [][NextRoute]_vars

\* createActivity of the storage behind IStorage starts or stops rejecting
StorageFault ==
  /\ Idle
  /\ activityFails' = ~activityFails
  /\ UNCHANGED <<env, config, call, exchanged, videos, videoIdCounter, req>>

NextFault ==
  \/ NextRoute
  \/ StorageFault

SpecFault == InitRoute /\ [][NextFault]_vars

PublishCall == call.op = "publish"

\* C18: after a publish request the video's status is "published" exactly
\* when at least one result succeeded, and then one video_published
\* activity lists the platforms that succeeded; when none succeeded the
\* video is as it was and no video_published activity is recorded.
C18_StatusFollowsResults ==
  PublishCall =>
    LET id == parseInt(call.idParam).n
        pub == SelectSeq(call.acts, LAMBDA a : a.action = "video_published")
    IN IF SomeSuccess(call.results)
       THEN /\ id \in DOMAIN videos
            /\ videos[id].status = "published"
            /\ pub = <<Activity("video_published", id, SucceededPlatforms(call.results))>>
       ELSE /\ videos = call.videosBefore
            /\ pub = <<>>

\* C19: for an existing video with media and a non-empty platform list the
\* publish endpoint answers 200 with the results, one per requested
\* platform or the single media failure.
C19_PublishAnswers200 ==
  ( /\ PublishCall
    /\ Len(call.platforms) > 0
    /\ parseInt(call.idParam).n \in DOMAIN call.videosBefore
    /\ Truthy(call.video.videoUrl) ) =>
      /\ call.status = 200
      /\ Len(call.results) > 0

\* C20: a publish request during which activity recording fails still
\* invokes the adapters of the requested platforms and returns their
\* results.
C20_ActivityFailureDoesNotAbort ==
  ( /\ PublishCall
    /\ activityFails
    /\ Len(call.platforms) > 0
    /\ call.video.id \in VideoIds
    /\ MediaResolves(call.video) ) =>
      /\ call.status = 200
      /\ Len(call.results) = Len(call.platforms)
      /\ (\E i \in 1..Len(call.platforms) : KnownPlatform(call.platforms[i]))
           => call.adapters # <<>>

\* C21 as stated: 404 whenever no video with the given id exists, 400
\* whenever it exists without media; nothing is invoked, recorded or changed.
C21_MissingVideoOrMedia ==
  (PublishCall /\ ~parseInt(call.idParam).nan) =>
    LET id == parseInt(call.idParam).n
    IN /\ id \notin DOMAIN call.videosAtStart =>
            (call.status = 404 /\ call.adapters = <<>> /\ call.acts = <<>>
               /\ videos = call.videosBefore)
       /\ (id \in DOMAIN call.videosAtStart /\ ~Truthy(call.videosAtStart[id].videoUrl)) =>
            (call.status = 400 /\ call.adapters = <<>> /\ call.acts = <<>>
               /\ videos = call.videosBefore)

\* C21: a publish request with a numeric id and a non-empty platform list
\* is answered 404 when no video with that id exists and 400 when the video
\* exists without media; in both cases no adapter is invoked, no activity
\* is recorded and no video is changed.
C21_ValidRequestMissingVideoOrMedia ==
  (PublishCall /\ ~parseInt(call.idParam).nan /\ Len(call.platforms) > 0) =>
    LET id == parseInt(call.idParam).n
    IN /\ id \notin DOMAIN call.videosAtStart =>
            (call.status = 404 /\ call.adapters = <<>> /\ call.acts = <<>>
               /\ videos = call.videosBefore)
       /\ (id \in DOMAIN call.videosAtStart /\ ~Truthy(call.videosAtStart[id].videoUrl)) =>
            (call.status = 400 /\ call.adapters = <<>> /\ call.acts = <<>>
               /\ videos = call.videosBefore)

\* publish of a stored video that has no media yet, for two platforms
C21_Witness ==
  /\ PublishCall
  /\ call.idParam = "1"
  /\ 1 \in DOMAIN videos
  /\ ~Truthy(videos[1].videoUrl)
  /\ Len(call.platforms) = 2
  /\ call.status = 400

\* the :id parameters that are the decimal numeral of a video id
ValidIdParam(s) == s \in {"1"}

\* C22: a publish request with an invalid video id or an empty platform
\* list is rejected as a whole (400, no results) with no adapter invoked,
\* no activity recorded and no video changed.
C22_InvalidRequestRejected ==
  (PublishCall /\ (~ValidIdParam(call.idParam) \/ Len(call.platforms) = 0)) =>
    /\ call.status = 400
    /\ call.results = <<>>
    /\ call.adapters = <<>>
    /\ call.acts = <<>>
    /\ videos = call.videosBefore

-----------------------------------------------------------------------------
(* Results of publishVideo *)

\* the adapters a request reaches: its known ids, lower-cased, in order
RECURSIVE KnownOf(_)
KnownOf(platforms) ==
  IF platforms = <<>> THEN <<>>
  ELSE (IF KnownPlatform(Head(platforms)) THEN <<toLowerCase(Head(platforms))>> ELSE <<>>)
       \o KnownOf(Tail(platforms))

\* C23: for a requested id that is not a known adapter, publishVideo puts a
\* non-succeeding unsupported-platform result for that id at its position,
\* invokes no adapter for it, and goes on with the remaining platforms.
C23_UnsupportedPlatformResult ==
  (Published /\ MediaResolves(call.video)) =>
    /\ Len(call.results) = Len(call.platforms)
    /\ call.adapters = KnownOf(call.platforms)
    /\ \A i \in 1..Len(call.platforms) :
         ~KnownPlatform(call.platforms[i]) =>
           call.results[i] =
             PublishResult(FALSE, call.platforms[i], "", "",
                           "Unsupported platform: " \o call.platforms[i])

\* an unknown id first, then youtube, which is still published
C23_Witness ==
  /\ Published
  /\ call.platforms = <<"vimeo", "youtube">>
  /\ MediaResolves(call.video)
  /\ call.results[1].error = "Unsupported platform: vimeo"
  /\ call.results[2].success
  /\ call.adapters = <<"youtube">>

\* C26: every result of publishVideo has a URL exactly when it succeeded
\* and an error exactly when it did not.
C26_UrlIffSuccess ==
  Published =>
    \A i \in 1..Len(call.results) :
      /\ Truthy(call.results[i].url) <=> call.results[i].success
      /\ Truthy(call.results[i].error) <=> ~call.results[i].success

\* a request with one succeeding and one failing result
C26_Witness ==
  /\ Published
  /\ call.platforms = <<"tiktok", "youtube">>
  /\ Len(call.results) = 2
  /\ call.results[1].success /\ Truthy(call.results[1].url)
  /\ ~call.results[2].success /\ Truthy(call.results[2].error)

\* C30: every result of publishVideo carries as its platform the id string
\* requested at the same position, letter case included.
C30_ResultCarriesRequestedId ==
  (Published /\ MediaResolves(call.video)) =>
    /\ Len(call.results) = Len(call.platforms)
    /\ \A i \in 1..Len(call.platforms) : call.results[i].platform = call.platforms[i]

-----------------------------------------------------------------------------
(* OAuth callback without parameters *)

-----------------------------------------------------------------------------
(* Publish racing with other requests *)

\* C29: whenever the publish endpoint records a video_published activity,
\* the video exists in storage with status "published" at that moment.
C29_PublishedActivityMeansPublishedVideo ==
  (PublishCall /\ \E i \in 1..Len(call.acts) : call.acts[i].action = "video_published") =>
    /\ parseInt(call.idParam).n \in DOMAIN videos
    /\ videos[parseInt(call.idParam).n].status = "published"

-----------------------------------------------------------------------------
(* The list of configured platforms *)

\* youtube, tiktok, instagram, in this order, without those not configured
OrderedConfigured(cfg) ==
  SelectSeq(<<"youtube", "tiktok", "instagram">>,
            LAMBDA p : isPlatformConfigured(cfg, p))

\* the calls that run loadConfig or setAccessToken
StoreWriters == {"reloadConfig", "setAccessToken", "authUrlRoute", "oauthCallback"}

ListedInOrder ==
  call.op = "getConfiguredPlatforms" =>
    /\ call.retList = OrderedConfigured(call.pre)
    /\ config = call.pre

\* C25: getConfiguredPlatforms returns the configured platforms in the
\* order youtube, tiktok, instagram without duplicates; the list is a
\* function of the store, and the store changes only in calls that reload
\* or set a token, so two calls with none of these between them return the
\* same sequence.
C25_ListOrderedAndStable ==
  /\ []ListedInOrder
  /\ [][config' # config => call'.op \in StoreWriters]_vars

\* all three platforms are configured and listed
C25_Witness ==
  /\ call.op = "getConfiguredPlatforms"
  /\ call.retList = <<"youtube", "tiktok", "instagram">>
  /\ \A p \in ThreePlatforms : isPlatformConfigured(config, p)

-----------------------------------------------------------------------------
(* Connecting YouTube and publishing afterwards *)

\* the requests of one run of the connect-and-publish flow: the YouTube
\* callback, the platforms list, the auth-url route and publishing
NextFlow ==
  \/ \E c \in Codes, e \in Errors : YoutubeCallback(c, e)
  \/ GetConfiguredPlatforms
  \/ \E p \in PlatformIds, h \in BaseUrls : AuthUrlRoute(p, h)
  \/ \E v \in Videos, ps \in PlatformLists : PublishVideo(v, ps)
  \/ Respond

SpecFlow == Init /\ [][NextFlow]_vars

\* C27: once the YouTube callback has returned its success response, every
\* later publish that includes youtube, for a video whose media resolves,
\* has a succeeding youtube result, whatever platforms-list, auth-url and
\* publish requests came in between.
C27_ConnectedStaysPublishable ==
  (Published /\ exchanged # {} /\ MediaResolves(call.video)) =>
    \A i \in 1..Len(call.platforms) :
      toLowerCase(call.platforms[i]) = "youtube" => call.results[i].success

\* C28: the YouTube callback sends its success response only if
\* setAccessToken('youtube', token) returned true, so that youtube holds an
\* access token in the store when the response is sent.
C28_SuccessOnlyWithStoredToken ==
  (Callback /\ call.platform = "youtube" /\ call.status = 200) =>
    /\ call.retBool
    /\ Truthy(AccessToken(config, "youtube"))

====
